---- MODULE Spec2Model ----
(***************************************************************************)
(* HVAC AI agent: the analysis pipeline of hvac_ai_agent (analyzer,        *)
(* diagnostic, forecaster, optimizer) and the script that orchestrates it. *)
(*                                                                         *)
(* Numbers.  pandas works on float64; the model works on integers.  A cell *)
(* of a numeric column is an integer or the missing marker NaN; a          *)
(* timestamp is a whole number of hours or the marker NaT.  A quotient the *)
(* code computes in floating point (a mean, a percentage) is kept as the   *)
(* exact fraction [num, den].                                              *)
(***************************************************************************)
EXTENDS Integers, Sequences, FiniteSets, TLC

\* ------------------------------------------------------------------------
\* Bounds of the model
\* ------------------------------------------------------------------------
\* Longest raw table whose cells are enumerated one by one.
MaxRows == 3
\* Longest table of the hourly logs that are long enough to forecast from.
MaxBigRows == 55
\* Largest horizon of a call of forecast_demand on its own.
MaxHorizon == 3
\* The one long horizon, past a day, asked of the longest frames.
LongHorizon == 26
\* Most rows of the frames passed to generate_recommendations on its own.
MaxRecRows == 2

\* ------------------------------------------------------------------------
\* Values
\* ------------------------------------------------------------------------
\* pd.NaT, the result of to_datetime(errors="coerce") on an unparsable cell.
NaT == -1
\* float NaN, the result of to_numeric(errors="coerce") on an unparsable cell.
NaN == -1000000
\* A raw CSV cell holding text that parses neither as a date nor as a number.
RawBad == -999999
\* A raw CSV cell that is empty (read_csv gives NaN).
RawNull == -999998

None == [kind |-> "None"]

Max(a, b) == IF a >= b THEN a ELSE b
Min(a, b) == IF a <= b THEN a ELSE b

\* A float quotient num/den kept exact; den = 0 stands for NaN (0/0, or the
\* mean of nothing).
Ratio(n, d) == [num |-> n, den |-> d]
NaNRatio == Ratio(0, 0)

\* The sum of a series, as the sum of the sums of its halves.
RECURSIVE SumSeq(_)
SumSeq(s) ==
    IF Len(s) = 0 THEN 0
    ELSE IF Len(s) = 1 THEN s[1]
    ELSE LET m == Len(s) \div 2
         IN  SumSeq(SubSeq(s, 1, m)) + SumSeq(SubSeq(s, m + 1, Len(s)))

\* The non-missing values of a series, in order.
Valid(s) == SelectSeq(s, LAMBDA v : v # NaN)

\* Series.mean(): NaN are skipped; the mean of nothing is NaN.
Mean(s) == LET v == Valid(s) IN IF v = <<>> THEN NaNRatio ELSE Ratio(SumSeq(v), Len(v))

\* ------------------------------------------------------------------------
\* Tables (pandas DataFrame): the column names, the index labels and the rows
\* ------------------------------------------------------------------------
Table(cols, idx, rows) == [columns |-> cols, index |-> idx, rows |-> rows]

NRows(df) == Len(df.rows)

\* df[col] as a series of cells.
Column(df, col) == [i \in 1..NRows(df) |-> df.rows[i][col]]

\* The rows of df at positions p[1], p[2], ..., with their index labels.
Take(df, p) ==
    Table(df.columns,
          [k \in 1..Len(p) |-> df.index[p[k]]],
          [k \in 1..Len(p) |-> df.rows[p[k]]])

\* df with column col replaced (or added) by series s.
Assign(df, col, s) ==
    Table(df.columns \cup {col},
          df.index,
          [i \in 1..NRows(df) |->
              [c \in df.columns \cup {col} |-> IF c = col THEN s[i] ELSE df.rows[i][c]]])

\* RangeIndex 0..n-1.
RangeIndex(n) == [k \in 1..n |-> k - 1]

\* Frames as objects.  A function works on a frame it got from the caller's
\* frame df: `work = df` is the caller's object itself, df.copy() another
\* object.  A pandas call that returns a frame (rename, dropna, sort_values,
\* reset_index, concat) returns a new object, and an assignment into a frame
\* (work[col] = ..., work.loc[...] = ...) writes into the object it has.
DataFrameAlias(df) == [frame |-> df, same_object |-> TRUE]
DataFrameCopy(df) == [frame |-> df, same_object |-> FALSE]
DerivedFrame(work, value) == [frame |-> value, same_object |-> FALSE]
InPlace(work, value) == [frame |-> value, same_object |-> work.same_object]

\* What the caller's frame df holds once the function is through with work.
CallerFrame(df, work) == IF work.same_object THEN work.frame ELSE df

\* ------------------------------------------------------------------------
\* analyzer.py
\* ------------------------------------------------------------------------
ALIAS_MAP ==
    ("time" :> "timestamp") @@ ("date" :> "timestamp") @@ ("datetime" :> "timestamp") @@
    ("energy" :> "kwh") @@ ("energy_kwh" :> "kwh") @@ ("energy_consumption" :> "kwh") @@
    ("kwh_consumption" :> "kwh") @@
    ("ikwtr" :> "ikw_tr") @@ ("ikw_per_tr" :> "ikw_tr") @@ ("kw_per_tr" :> "ikw_tr") @@
    ("ambient_temperature" :> "ambient_temp") @@ ("outdoor_temp" :> "ambient_temp") @@
    ("outside_temp" :> "ambient_temp") @@ ("temperature" :> "ambient_temp") @@
    ("occupancy" :> "load_profile") @@ ("load" :> "load_profile")

NUMERIC_COLUMNS == {"kwh", "ikw_tr", "ambient_temp", "load_profile"}

\* col.strip().lower().replace(" ", "_").replace("-", "_"), on the column
\* names that occur in the raw tables of this model.
StripLowerReplace(col) ==
    CASE col = "timestamp" -> "timestamp"
      [] col = " Date " -> "date"
      [] col = "Time Stamp" -> "time_stamp"
      [] col = "kWh" -> "kwh"
      [] col = "Energy Consumption" -> "energy_consumption"
      [] col = "iKW-TR" -> "ikw_tr"
      [] col = "kW per TR" -> "kw_per_tr"
      [] col = "ambient_temp" -> "ambient_temp"
      [] col = "Outdoor-Temp" -> "outdoor_temp"
      [] col = "Load" -> "load"
      [] col = "load_profile" -> "load_profile"
      [] col = "Humidity %" -> "humidity_%"
      [] OTHER -> col

\* One entry of `renamed`: the alias of the folded name, or the folded name.
Renamed(col) ==
    LET normalized == StripLowerReplace(col)
    IN  IF normalized \in DOMAIN ALIAS_MAP THEN ALIAS_MAP[normalized] ELSE normalized

\* _normalize_columns: df.rename(columns=renamed).
normalize_columns(df) ==
    LET cols == {Renamed(c) : c \in df.columns}
        old(n) == CHOOSE c \in df.columns : Renamed(c) = n
    IN  Table(cols, df.index,
              [i \in 1..NRows(df) |-> [n \in cols |-> df.rows[i][old(n)]]])

\* pd.to_datetime(cell, errors="coerce")
ToDatetime(c) == IF c \in {RawBad, RawNull, NaT} THEN NaT ELSE c

\* pd.to_numeric(cell, errors="coerce")
ToNumeric(c) == IF c \in {RawBad, RawNull, NaN} THEN NaN ELSE c

\* The positions of the rows df.dropna(subset=["timestamp"]) keeps, in order.
KeptPositions(ts) == SelectSeq([i \in 1..Len(ts) |-> i], LAMBDA i : ts[i] # NaT)

\* The positions dropna would keep if it also dropped every row whose
\* timestamp an earlier row has.
FirstOfEachStamp(ts) ==
    SelectSeq([i \in 1..Len(ts) |-> i],
              LAMBDA i : ts[i] # NaT /\ ~\E j \in 1..(i - 1) : ts[j] = ts[i])
DropNaAndDuplicates(df) == Take(df, FirstOfEachStamp(Column(df, "timestamp")))
dropna_timestamp(df) == Take(df, KeptPositions(Column(df, "timestamp")))

\* sort_values sorts with kind="quicksort", which is not stable: the order in
\* which rows of equal timestamp come out depends on the numpy build.  The
\* model lets them come out in their given order or in the reverse of it.
TieOrders == {"kept", "reversed"}

\* The tie orders that make a difference for the frame df: one where no two
\* rows share a timestamp (or there is no timestamp column).
SortOutcomes(df) ==
    IF "timestamp" \in df.columns
       /\ \E i \in 1..NRows(df) : \E j \in (i + 1)..NRows(df) :
              ToDatetime(df.rows[i]["timestamp"]) = ToDatetime(df.rows[j]["timestamp"])
    THEN TieOrders ELSE {"kept"}

\* The positions 1..n in ascending order of their keys, positions of equal
\* keys in the order `ties`: position p comes at the place that counts the
\* positions going before it.
SortedPositions(keys, n, ties) ==
    LET Places == [p \in 1..n |->
                     1 + Cardinality({j \in 1..n :
                             \/ keys[j] < keys[p]
                             \/ /\ keys[j] = keys[p]
                                /\ IF ties = "kept" THEN j < p ELSE j > p})]
    IN  CHOOSE s \in { [r \in 1..n |-> CHOOSE p \in 1..n : place[p] = r] : place \in {Places} } : TRUE

SortSkipped(df, ties) == df
\* df.sort_values("timestamp"): ascending, NaT last, rows of equal timestamp
\* in the order `ties`.
sort_values_timestamp(df, ties) ==
    LET ts == Column(df, "timestamp")
        keys == [i \in 1..Len(ts) |-> IF ts[i] = NaT THEN 2000000000 ELSE ts[i]]
    IN  Take(df, SortedPositions(keys, NRows(df), ties))

\* df.reset_index(drop=True)
reset_index(df) == Table(df.columns, RangeIndex(NRows(df)), df.rows)

RECURSIVE CoerceNumeric(_, _)
CoerceNumeric(df, cols) ==
    IF cols = {} THEN df
    ELSE LET col == CHOOSE c \in cols : TRUE
         IN  CoerceNumeric(
                 Assign(df, col, [i \in 1..NRows(df) |-> ToNumeric(df.rows[i][col])]),
                 cols \ {col})

Raised(msg) == [ok |-> FALSE, error |-> msg]
Returned(v) == [ok |-> TRUE, value |-> v]

prepare_dataframe(raw_df, ties) ==
    LET df == normalize_columns(raw_df)
    IN  IF "timestamp" \notin df.columns
        THEN Raised("Dataset must include a timestamp column.")
        ELSE LET parsed == Assign(df, "timestamp",
                               [i \in 1..NRows(df) |-> ToDatetime(df.rows[i]["timestamp"])])
                 sorted == reset_index(sort_values_timestamp(dropna_timestamp(parsed), ties))
             IN  Returned(CoerceNumeric(sorted, NUMERIC_COLUMNS \cap sorted.columns))

\* The last position before i holding a value of s, or 0.
PrevValid(s, i) ==
    LET before == {j \in 1..(i - 1) : s[j] # NaN}
    IN  IF before = {} THEN 0 ELSE CHOOSE j \in before : \A k \in before : k <= j

\* The first position behind i holding a value of s, or 0.
NextValid(s, i) ==
    LET behind == {j \in (i + 1)..Len(s) : s[j] # NaN}
    IN  IF behind = {} THEN 0 ELSE CHOOSE j \in behind : \A k \in behind : j <= k

\* Series.interpolate() without limit_direction="both" reaching the edges:
\* only a missing value between two values is filled.
InterpolateInside(s) ==
    [i \in 1..Len(s) |->
        IF s[i] # NaN THEN s[i]
        ELSE LET a == PrevValid(s, i)
                 b == NextValid(s, i)
             IN  IF a # 0 /\ b # 0
                 THEN s[a] + ((s[b] - s[a]) * (i - a)) \div (b - a)
                 ELSE NaN]

\* Series.interpolate(limit_direction="both"), method linear: a missing value
\* between two values lies on the line through them (positions equally
\* spaced); a leading gap takes the first value and a trailing gap the last;
\* a series without any value is left as it is.
interpolate(s) ==
    [i \in 1..Len(s) |->
        IF s[i] # NaN THEN s[i]
        ELSE LET a == PrevValid(s, i)
                 b == NextValid(s, i)
             IN  IF a # 0 /\ b # 0
                 THEN s[a] + ((s[b] - s[a]) * (i - a)) \div (b - a)
                 ELSE IF a # 0 THEN s[a]
                 ELSE IF b # 0 THEN s[b]
                 ELSE NaN]

\* The k-th value of v in ascending order.
KthSmallest(v, k) ==
    LET below(x) == Cardinality({i \in 1..Len(v) : v[i] < x})
        upTo(x) == Cardinality({i \in 1..Len(v) : v[i] <= x})
    IN  CHOOSE x \in {v[i] : i \in 1..Len(v)} : below(x) < k /\ k <= upTo(x)

\* Series.median(): NaN are skipped; the median of nothing is NaN.
median(s) ==
    LET v == Valid(s)
        n == Len(v)
    IN  IF n = 0 THEN NaN
        ELSE IF n % 2 = 1 THEN KthSmallest(v, (n + 1) \div 2)
        ELSE (KthSmallest(v, n \div 2) + KthSmallest(v, n \div 2 + 1)) \div 2

\* Series.fillna(value)
fillna(s, value) == [i \in 1..Len(s) |-> IF s[i] = NaN THEN value ELSE s[i]]

\* One round of the gap-filling loop of analyze_data.
FillColumn(s) ==
    LET t == interpolate(s) IN fillna(t, median(t))

RECURSIVE FillGaps(_, _)
FillGaps(df, cols) ==
    IF cols = {} THEN df
    ELSE LET col == CHOOSE c \in cols : TRUE
         IN  FillGaps(Assign(df, col, FillColumn(Column(df, col))), cols \ {col})

\* Series.max(): NaN are skipped; the maximum of nothing is NaN.
MaxSeq(s) ==
    LET v == {s[i] : i \in 1..Len(s)} \ {NaN}
    IN  IF v = {} THEN NaN ELSE CHOOSE x \in v : \A y \in v : y <= x

\* Pearson correlation of two columns as DataFrame.corr() computes it, over
\* the rows where both hold a value.  With n such rows the coefficient is
\* cov / sqrt(vx * vy) for the integers below; it is NaN when a variance is 0
\* (0/0 in floating point) or no row is left.
corr(x, y) ==
    LET both == SelectSeq([i \in 1..Len(x) |-> i], LAMBDA i : x[i] # NaN /\ y[i] # NaN)
        n  == Len(both)
        xs == [k \in 1..n |-> x[both[k]]]
        ys == [k \in 1..n |-> y[both[k]]]
        sx == SumSeq(xs)
        sy == SumSeq(ys)
        cov == n * SumSeq([k \in 1..n |-> xs[k] * ys[k]]) - sx * sy
        vx  == n * SumSeq([k \in 1..n |-> xs[k] * xs[k]]) - sx * sx
        vy  == n * SumSeq([k \in 1..n |-> ys[k] * ys[k]]) - sy * sy
    IN  [nan |-> (n = 0 \/ vx = 0 \/ vy = 0), cov |-> cov, vx |-> vx, vy |-> vy]

\* The kpis dictionary: a metric of an absent column is np.nan.
Kpis(df) ==
    [records |-> NRows(df),
     avg_kwh |-> IF "kwh" \in df.columns THEN Mean(Column(df, "kwh")) ELSE NaNRatio,
     peak_kwh |-> IF "kwh" \in df.columns THEN MaxSeq(Column(df, "kwh")) ELSE NaN,
     avg_ikw_tr |-> IF "ikw_tr" \in df.columns THEN Mean(Column(df, "ikw_tr")) ELSE NaNRatio,
     avg_ambient_temp |->
         IF "ambient_temp" \in df.columns THEN Mean(Column(df, "ambient_temp")) ELSE NaNRatio]

\* df[available].corr().get("kwh", empty).drop(labels=["kwh"], errors="ignore")
Correlations(df, available) ==
    IF "kwh" \notin available THEN <<>>
    ELSE [c \in available \ {"kwh"} |-> corr(Column(df, c), Column(df, "kwh"))]

\* The least number of core columns analyze_data accepts.
MinCoreParamsTwo == 3 - 1
MinCoreParams == 3

analyze_data(raw_df, ties) ==
    LET prepared == prepare_dataframe(raw_df, ties)
    IN  IF ~prepared.ok THEN prepared
        ELSE LET df == prepared.value
                 available_core_params == NUMERIC_COLUMNS \cap df.columns
             IN  IF Cardinality(available_core_params) < MinCoreParams
                 THEN Raised("Dataset must contain at least 3 core parameters among: kwh, ikw_tr, ambient_temp, load_profile.")
                 ELSE LET filled == FillGaps(df, available_core_params)
                      IN  Returned([cleaned_df |-> filled,
                                    available_core_params |-> available_core_params,
                                    kpis |-> Kpis(filled),
                                    correlations |-> Correlations(filled, available_core_params)])

\* ------------------------------------------------------------------------
\* forecaster.py
\* ------------------------------------------------------------------------
\* Timestamp.hour and Timestamp.dayofweek of a timestamp counted in hours
\* from a Monday 00:00; both are missing for NaT.
HourOf(t) == IF t = NaT THEN NaN ELSE t % 24
DayOfWeekOf(t) == IF t = NaT THEN NaN ELSE (t \div 24) % 7

\* The columns of the frame _build_features returns for df.
FeatureColumns(df) ==
    {"hour", "dayofweek", "lag_1", "lag_24"}
        \cup (IF "ambient_temp" \in df.columns THEN {"ambient_temp"} ELSE {})
        \cup (IF "load_profile" \in df.columns THEN {"load_profile"} ELSE {})

\* df["kwh"].shift(k) at position i.
ShiftedKwh(df, k, i) == IF i - k >= 1 THEN df.rows[i - k]["kwh"] ELSE NaN

\* Row i of the frame _build_features returns for df.
FeaturesAt(df, i) ==
    [f \in FeatureColumns(df) |->
        CASE f = "hour" -> HourOf(df.rows[i]["timestamp"])
          [] f = "dayofweek" -> DayOfWeekOf(df.rows[i]["timestamp"])
          [] f = "lag_1" -> ShiftedKwh(df, 1, i)
          [] f = "lag_24" -> ShiftedKwh(df, 24, i)
          [] OTHER -> df.rows[i][f]]

build_features(df) == [i \in 1..NRows(df) |-> FeaturesAt(df, i)]

\* ~feature_df.isna().any(axis=1) at one row.
RowCompleteLagsOnly(feat) == feat["lag_1"] # NaN /\ feat["lag_24"] # NaN
RowComplete(feat) == \A f \in DOMAIN feat : feat[f] # NaN

\* The positions of the rows of work_df that the mask keeps for training.
TrainingPositions(df) ==
    LET feature_df == build_features(df)
    IN  SelectSeq([i \in 1..NRows(df) |-> i], LAMBDA i : RowComplete(feature_df[i]))

\* The least number of complete feature rows forecast_demand accepts.
MinTrainingRows == 30

\* X.median(numeric_only=True).to_dict()
FeatureDefaults(df, train) ==
    [f \in FeatureColumns(df) |-> median([k \in 1..Len(train) |-> FeaturesAt(df, train[k])[f]])]

\* pd.infer_freq(work_df["timestamp"]) as a number of hours, 0 for None:
\* a frequency is inferred when the timestamps are unique, ascending and
\* equally spaced.
InferFreq(ts) ==
    IF Len(ts) >= 3 /\ ts[2] > ts[1] /\ \A i \in 2..Len(ts) : ts[i] - ts[i - 1] = ts[2] - ts[1]
    THEN ts[2] - ts[1]
    ELSE 0

\* The step of the fallback frequency "H", in hours.
FallbackFreqNone == 1 - 1
FallbackFreq == 1

\* The fitted LinearRegression: an intercept and one coefficient per feature
\* column.  model.predict on one feature row.
Predict(model, feat) ==
    model.intercept
        + SumSeq([k \in 1..Len(model.names) |->
                    IF model.names[k] \in DOMAIN feat
                    THEN model.coef[k] * feat[model.names[k]]
                    ELSE 0])

\* Series.iloc[-24:].mean() written into a cell of the new row: the mean of
\* the values among the last 24 rows, rounded down to the unit of the cells.
TailWindow == 24
TailMeanCell(s) ==
    LET n == Len(s)
        v == Valid(SubSeq(s, Max(1, n - TailWindow + 1), n))
    IN  IF v = <<>> THEN NaN ELSE SumSeq(v) \div Len(v)

\* max(pred, 0.0)
ClampMissing(pred) == pred
Clamp(pred) == Max(pred, 0)

\* The row the loop appends to history before it predicts: the next
\* timestamp, the held-over exogenous values, and no kwh (nor any other
\* column) yet.
NextRow(history, freq) ==
    LET n == NRows(history)
        last == history.rows[n]["timestamp"]
        next_time == IF last = NaT THEN NaT ELSE last + freq
    IN  [c \in history.columns |->
            CASE c = "timestamp" -> next_time
              [] c = "ambient_temp" -> TailMeanCell(Column(history, "ambient_temp"))
              [] c = "load_profile" -> TailMeanCell(Column(history, "load_profile"))
              [] OTHER -> NaN]

\* pd.concat([history, pd.DataFrame([next_row])], ignore_index=True)
Concat(history, row) ==
    Table(history.columns, RangeIndex(NRows(history) + 1), Append(history.rows, row))

\* The features of the appended row, gaps filled with the training medians.
StepFeatures(extended, feature_defaults) ==
    LET feat == FeaturesAt(extended, NRows(extended))
    IN  [f \in DOMAIN feat |->
            IF feat[f] = NaN /\ f \in DOMAIN feature_defaults
            THEN feature_defaults[f] ELSE feat[f]]

\* One pass of the projection loop without the write of the prediction into
\* the history: the new row keeps its missing kwh.
ForecastStepNoWriteBack(history, model, feature_defaults, freq) ==
    LET extended == Concat(history, NextRow(history, freq))
        feat == StepFeatures(extended, feature_defaults)
        pred == Predict(model, feat)
    IN  [history |-> extended,
         row |-> [timestamp |-> extended.rows[NRows(extended)]["timestamp"],
                  pred_kwh |-> Clamp(pred)],
         features |-> feat]

\* One pass of the projection loop: the history with the new row and its
\* clamped prediction, and the row appended to future_rows.
ForecastStep(history, model, feature_defaults, freq) ==
    LET extended == Concat(history, NextRow(history, freq))
        n    == NRows(extended)
        feat == StepFeatures(extended, feature_defaults)
        pred == Predict(model, feat)
        last == [extended.rows[n] EXCEPT !["kwh"] = Clamp(pred)]
    IN  [history |-> Table(extended.columns, extended.index, Append(history.rows, last)),
         row |-> [timestamp |-> extended.rows[n]["timestamp"], pred_kwh |-> Clamp(pred)],
         features |-> feat]

\* The checks forecast_demand makes before it fits: the frame it goes on
\* with, or the error it raises.
ForecastPrepare(df, ties) ==
    IF "kwh" \notin df.columns
    THEN Raised("Forecasting requires kwh column.")
    ELSE IF "timestamp" \notin df.columns
    THEN Raised("KeyError: 'timestamp'")
    ELSE LET work_df == reset_index(sort_values_timestamp(df, ties))
             train == TrainingPositions(work_df)
         IN  IF Len(train) < MinTrainingRows
             THEN Raised("Not enough data for forecasting. Provide at least 30 valid records.")
             ELSE Returned([work_df |-> work_df,
                            train |-> train,
                            feature_defaults |-> FeatureDefaults(work_df, train),
                            inferred_freq |->
                                LET f == InferFreq(Column(work_df, "timestamp"))
                                IN  IF f = 0 THEN FallbackFreq ELSE f])

\* X.columns, in the order _build_features adds them.
FeatureNames(df) ==
    <<"hour", "dayofweek", "lag_1", "lag_24">>
        \o (IF "ambient_temp" \in df.columns THEN <<"ambient_temp">> ELSE <<>>)
        \o (IF "load_profile" \in df.columns THEN <<"load_profile">> ELSE <<>>)

\* What LinearRegression().fit(X, y) may return.  The least-squares fit is
\* sklearn's; the model keeps it open and lets the fit return any of these
\* coefficient vectors (per feature name) with any of these intercepts.
CoefChoices ==
    { [hour |-> 0, dayofweek |-> 0, lag_1 |-> 1, lag_24 |-> 0, ambient_temp |-> 0, load_profile |-> 0],
      [hour |-> 1, dayofweek |-> 2, lag_1 |-> 0, lag_24 |-> 1, ambient_temp |-> 2, load_profile |-> 1],
      [hour |-> 0, dayofweek |-> 0, lag_1 |-> -1, lag_24 |-> 0, ambient_temp |-> 0, load_profile |-> 0] }
InterceptChoices == {-60, 25}

FittedModels(df) ==
    LET names == FeatureNames(df)
    IN  { [names |-> names, coef |-> [k \in 1..Len(names) |-> c[names[k]]], intercept |-> b] :
            c \in CoefChoices, b \in InterceptChoices }

\* pd.DataFrame(future_rows)
DataFrameOf(rows, cols) ==
    Table(IF rows = <<>> THEN {} ELSE cols, RangeIndex(Len(rows)), rows)

\* The whole projection loop: history and future_rows once future_rows
\* holds horizon_hours rows.
RECURSIVE ForecastLoop(_, _, _, _, _, _)
ForecastLoop(history, future_rows, model, feature_defaults, freq, horizon_hours) ==
    IF Len(future_rows) >= horizon_hours
    THEN [history |-> history, future_rows |-> future_rows]
    ELSE LET step == ForecastStep(history, model, feature_defaults, freq)
         IN  ForecastLoop(step.history, Append(future_rows, step.row),
                          model, feature_defaults, freq, horizon_hours)

\* The rest of forecast_demand(df, horizon_hours) once the checks have
\* passed and the fit has returned `model`.
ForecastRun(p, horizon_hours, model) ==
    LET run == ForecastLoop(p.work_df, <<>>, model, p.feature_defaults,
                            p.inferred_freq, horizon_hours)
    IN  [forecast_df |-> DataFrameOf(run.future_rows, {"timestamp", "pred_kwh"}),
         model_summary |-> model]

\* ------------------------------------------------------------------------
\* diagnostic.py
\* ------------------------------------------------------------------------
\* The cutoff of the statistical method: z_scores.abs() > 3.0
ZCutoff == 3

\* _zscore(series).abs() > ZCutoff at position i.  With n values of sum S the
\* population variance is V / n^2 for V = n * sum(x^2) - S^2, so |z_i| > c is
\* (n * x_i - S)^2 > c^2 * V; a zero or undefined deviation gives z = 0.
ZFlag(series, i) ==
    LET v == Valid(series)
        n == Len(v)
        S == SumSeq(v)
        V == n * SumSeq([k \in 1..n |-> v[k] * v[k]]) - S * S
    IN  IF n = 0 \/ V = 0 \/ series[i] = NaN THEN FALSE
        ELSE (n * series[i] - S) * (n * series[i] - S) > ZCutoff * ZCutoff * V

\* The thresholds of the ensemble method.
MinIsoFeatures == 2
MinIsoRowsLess == 20 - 1
MinIsoRows == 20

\* What IsolationForest(contamination=0.05, random_state=42).fit_predict may
\* flag on n rows.  The forest is sklearn's; the model keeps open which rows
\* it isolates and lets it flag nothing, the first row, the last row or both.
IsoOutcomes(n) ==
    { [i \in 1..n |-> i \in S] : S \in {{}, {1}, {n}, {1, n}} }

\* is_anomaly for the flags `iso` of the ensemble method.
AnomalyFlags(df, iso) ==
    [i \in 1..NRows(df) |->
        (IF "kwh" \in df.columns THEN ZFlag(Column(df, "kwh"), i) ELSE FALSE) \/ iso[i]]

\* efficiency_degradation_pct with windows of a fifth of the rows, without
\* the least width of 5.
DegradationPctNoMinWindow(df) ==
    LET n == NRows(df)
        w == n \div 5
    IN  IF "ikw_tr" \in df.columns /\ n >= 10
        THEN LET col == Column(df, "ikw_tr")
                 baseline == Mean(SubSeq(col, 1, w))
                 recent == Mean(SubSeq(col, n - w + 1, n))
             IN  IF baseline.den > 0 /\ baseline.num > 0
                 THEN IF recent.den = 0 THEN NaNRatio
                      ELSE Ratio((recent.num * baseline.den - baseline.num * recent.den) * 100,
                                 baseline.num * recent.den)
                 ELSE Ratio(0, 1)
        ELSE Ratio(0, 1)

\* efficiency_degradation_pct as the fraction num/den.
DegradationPct(df) ==
    LET n == NRows(df)
        w == Max(5, n \div 5)
    IN  IF "ikw_tr" \in df.columns /\ n >= 10
        THEN LET col == Column(df, "ikw_tr")
                 baseline == Mean(SubSeq(col, 1, w))
                 recent == Mean(SubSeq(col, n - w + 1, n))
             IN  IF baseline.den > 0 /\ baseline.num > 0
                 THEN IF recent.den = 0 THEN NaNRatio
                      ELSE Ratio((recent.num * baseline.den - baseline.num * recent.den) * 100,
                                 baseline.num * recent.den)
                 ELSE Ratio(0, 1)
        ELSE Ratio(0, 1)

CountTrue(flags) == Len(SelectSeq(flags, LAMBDA b : b))

\* run_diagnostics(df) with the ensemble method flagging `iso` (used only
\* when the method runs).
run_diagnostics(df, iso) ==
    LET feature_cols == NUMERIC_COLUMNS \cap df.columns
        runs_iso == Cardinality(feature_cols) >= MinIsoFeatures /\ NRows(df) >= MinIsoRows
        none == [i \in 1..NRows(df) |-> FALSE]
        flags == AnomalyFlags(df, IF runs_iso THEN iso ELSE none)
    IN  [anomaly_df |-> Assign(df, "is_anomaly", flags),
         summary |-> [anomaly_count |-> CountTrue(flags),
                      anomaly_ratio_pct |-> Ratio(CountTrue(flags) * 100, NRows(df)),
                      efficiency_degradation_pct |-> DegradationPct(df)]]

\* ------------------------------------------------------------------------
\* optimizer.py
\* ------------------------------------------------------------------------
\* Python values: a DataFrame is a table; anything else passed around here
\* is a dict (a record or a function from keys).
IsDataFrame(v) == DOMAIN v = {"columns", "index", "rows"}

\* The recommendations one rule appends: `if fired: append(high) else:
\* append(calm)`.
RuleOutcomeNoElse(fired, high, calm) == IF fired THEN <<high>> ELSE <<>>
RuleOutcome(fired, high, calm) == IF fired THEN <<high>> ELSE <<calm>>

\* a > b * m / 10 on fractions; a comparison with NaN is False.
GreaterOrEqualScaled(a, b, m) ==
    /\ a.den > 0
    /\ b.den > 0
    /\ a.num * 10 * b.den >= m * b.num * a.den
GreaterScaled(a, b, m) ==
    /\ a.den > 0
    /\ b.den > 0
    /\ a.num * 10 * b.den > m * b.num * a.den

\* The default of efficiency_threshold, 1.2, in hundredths.
DefaultEfficiencyThreshold == 120

\* generate_recommendations(summary, forecast_df, anomalies_df, full_df,
\* efficiency_threshold).  iKW_TR cells and the threshold are in hundredths.
generate_recommendations(summary, forecast_df, anomalies_df, full_df, efficiency_threshold) ==
    LET avg_kwh == IF "avg_kwh" \in DOMAIN summary THEN summary["avg_kwh"] ELSE Ratio(0, 1)
    IN  IF ~IsDataFrame(forecast_df)
        THEN Raised("AttributeError: 'dict' object has no attribute 'empty'")
        ELSE IF NRows(forecast_df) > 0 /\ "forecast_kWh" \notin forecast_df.columns
        THEN Raised("KeyError: 'forecast_kWh'")
        ELSE IF (IsDataFrame(full_df) /\ "iKW_TR" \notin full_df.columns)
                \/ (~IsDataFrame(full_df) /\ "iKW_TR" \notin DOMAIN full_df)
        THEN Raised("KeyError: 'iKW_TR'")
        ELSE LET forecast_avg == IF NRows(forecast_df) > 0
                                 THEN Mean(Column(forecast_df, "forecast_kWh"))
                                 ELSE avg_kwh
                 eff == Column(full_df, "iKW_TR")
                 recent_eff == Mean(SubSeq(eff, Max(1, Len(eff) - 23), Len(eff)))
                 anomaly_count == IF IsDataFrame(anomalies_df) THEN NRows(anomalies_df)
                                  ELSE Cardinality(DOMAIN anomalies_df)
             IN  Returned(
                   RuleOutcome(GreaterScaled(forecast_avg, avg_kwh, 11),
                       [text |-> "Forecasted demand for the next 24 hours is high."],
                       [text |-> "Forecasted demand is near baseline."])
                   \o
                   RuleOutcome(recent_eff.den > 0
                                  /\ recent_eff.num > efficiency_threshold * recent_eff.den,
                       [text |-> "Average iKW_TR over the last 24 hours is above threshold.",
                        recent_eff |-> recent_eff, threshold |-> efficiency_threshold],
                       [text |-> "Recent iKW_TR is within target threshold.",
                        recent_eff |-> recent_eff, threshold |-> efficiency_threshold])
                   \o
                   RuleOutcome(anomaly_count > 0,
                       [text |-> "Detected energy anomalies.", count |-> anomaly_count],
                       [text |-> "No strong anomalies detected."]))

\* ------------------------------------------------------------------------
\* app.py: AnalyzerAgent
\* ------------------------------------------------------------------------
\* The options of the "Anomaly Sensitivity" slider.
Sensitivities == {"Low", "Medium", "High"}

\* {"Low": 2.7, "Medium": 2.3, "High": 1.9}.get(sensitivity, 2.3), in tenths.
ZThresholdSwapped(sensitivity) ==
    CASE sensitivity = "Low" -> 19
      [] sensitivity = "Medium" -> 23
      [] sensitivity = "High" -> 27
      [] OTHER -> 23
ZThreshold(sensitivity) ==
    CASE sensitivity = "Low" -> 27
      [] sensitivity = "Medium" -> 23
      [] sensitivity = "High" -> 19
      [] OTHER -> 23

\* AnalyzerAgent(sensitivity)
AnalyzerAgent(sensitivity) ==
    [sensitivity |-> sensitivity, z_threshold |-> ZThreshold(sensitivity)]

\* working["kWh_z"].abs() > z_threshold at position i, for z_threshold in
\* tenths.  With n values of sum S the deviation std(ddof=0) is sqrt(V) / n
\* for V = n * sum(x^2) - S^2, so |z_i| > t / 10 is
\* 100 * (n * x_i - S)^2 > t^2 * V; with V = 0 every z is 0/0, NaN, and no
\* comparison with NaN is True.
KwhZExceeds(series, i, z_threshold) ==
    LET v == Valid(series)
        n == Len(v)
        S == SumSeq(v)
        V == n * SumSeq([k \in 1..n |-> v[k] * v[k]]) - S * S
    IN  /\ series[i] # NaN
        /\ n > 0
        /\ 100 * (n * series[i] - S) * (n * series[i] - S) > z_threshold * z_threshold * V

\* DataFrame.tail(k) and DataFrame.head(k) on a series.
TailRows(s, k) == SubSeq(s, Max(1, Len(s) - k + 1), Len(s))
HeadRows(s, k) == SubSeq(s, 1, Min(k, Len(s)))

\* recent_window = working.tail(12); baseline_window = working.tail(72).head(60)
RecentHours == 12
BaselineSpan == 72
BaselineHours == 60

\* demand_shift_pct = ((recent_kwh - baseline_kwh) / baseline_kwh * 100)
\* if baseline_kwh else 0.0, as a fraction of positive denominator (NaN is
\* true in Python, and the quotient of NaN is NaN).
DemandShiftPct(kwh) ==
    LET recent_kwh == Mean(TailRows(kwh, RecentHours))
        baseline_kwh == Mean(HeadRows(TailRows(kwh, BaselineSpan), BaselineHours))
    IN  IF baseline_kwh.den = 0 \/ recent_kwh.den = 0 THEN NaNRatio
        ELSE IF baseline_kwh.num = 0 THEN Ratio(0, 1)
        ELSE LET num == (recent_kwh.num * baseline_kwh.den - baseline_kwh.num * recent_kwh.den) * 100
                 den == baseline_kwh.num * recent_kwh.den
             IN  IF den > 0 THEN Ratio(num, den) ELSE Ratio(0 - num, 0 - den)

\* a > b for a fraction a and a whole number b; False for NaN.
ExceedsPct(a, b) == a.den > 0 /\ a.num > b * a.den

\* p1/q1 > p2/q2 for non-negative numerators and positive denominators,
\* compared by whole parts and then by the inverted remainders, so that no
\* product leaves the range of the integers.
RECURSIVE FracGreater(_, _, _, _)
FracGreater(p1, q1, p2, q2) ==
    LET i1 == p1 \div q1
        i2 == p2 \div q2
        r1 == p1 % q1
        r2 == p2 % q2
    IN  IF i1 # i2 THEN i1 > i2
        ELSE IF r1 = 0 THEN FALSE
        ELSE IF r2 = 0 THEN TRUE
        ELSE FracGreater(q2, r2, q1, r1)

\* temp_kwh_corr > 0.55 for c = corr(...): cov / sqrt(vx * vy) > 11/20, that
\* is cov > 0 and (20 * cov) / (11 * vx) > (11 * vy) / (20 * cov); False
\* for NaN.
CorrExceedsWeatherCutoff(c) ==
    /\ ~c.nan
    /\ c.cov > 0
    /\ FracGreater(20 * c.cov, 11 * c.vx, 11 * c.vy, 20 * c.cov)

\* The cutoffs of the severity tiers.
DriftHighPct == 8
DriftMediumPct == 4
AnomalyHighCount == 8
AnomalyMediumCount == 4

AgentFinding(severity, title) == [severity |-> severity, title |-> title]

\* The four findings in the order run appends them.
Findings(demand_shift_pct, temp_kwh_corr, anomaly_count) ==
    << AgentFinding(IF ExceedsPct(demand_shift_pct, DriftHighPct) THEN "high"
                    ELSE IF ExceedsPct(demand_shift_pct, DriftMediumPct) THEN "medium"
                    ELSE "low",
                    "Recent demand drift"),
       AgentFinding(IF CorrExceedsWeatherCutoff(temp_kwh_corr) THEN "medium" ELSE "low",
                    "Weather sensitivity"),
       AgentFinding(IF anomaly_count >= AnomalyHighCount THEN "high"
                    ELSE IF anomaly_count >= AnomalyMediumCount THEN "medium"
                    ELSE "low",
                    "Anomaly concentration"),
       AgentFinding("medium", "Peak energy event") >>

\* The findings as appended, without the sort.
Unsorted(findings) == findings

\* sorted(findings, key=lambda item: {"high": 0, "medium": 1, "low": 2}[item.severity]);
\* Python's sort is stable.
SortedFindings(findings) ==
    SelectSeq(findings, LAMBDA f : f.severity = "high")
        \o SelectSeq(findings, LAMBDA f : f.severity = "medium")
        \o SelectSeq(findings, LAMBDA f : f.severity = "low")

\* AnalyzerAgent.run(df) for the agent self.  The anomalies are the flagged
\* rows under their index labels, cut to timestamp, kWh and iKW-TR; idxmax
\* raises on a column without any value.
AgentRunResult(self, df) ==
    IF NRows(df) = 0 \/ Valid(Column(df, "kWh")) = <<>>
    THEN Raised("ValueError: attempt to get argmax of an empty sequence")
    ELSE LET kwh == Column(df, "kWh")
             flagged == SelectSeq([i \in 1..NRows(df) |-> i],
                                  LAMBDA i : KwhZExceeds(kwh, i, self.z_threshold))
             anomalies == Table({"timestamp", "kWh", "iKW-TR"},
                                [k \in 1..Len(flagged) |-> df.index[flagged[k]]],
                                [k \in 1..Len(flagged) |->
                                    [c \in {"timestamp", "kWh", "iKW-TR"} |-> df.rows[flagged[k]][c]]])
             demand_shift_pct == DemandShiftPct(kwh)
             temp_kwh_corr == corr(Column(df, "ambient_temp"), kwh)
         IN  Returned([anomalies |-> anomalies,
                       findings |-> SortedFindings(Findings(demand_shift_pct, temp_kwh_corr,
                                                            Len(flagged))),
                       demand_shift_pct |-> demand_shift_pct,
                       corr_temp_kwh |-> temp_kwh_corr])

\* ------------------------------------------------------------------------
\* Input tables
\* ------------------------------------------------------------------------
\* The cell of a column of kind `kind` at row i of n.  Values are in the
\* unit of the column (kWh, hundredths of iKW/TR, degrees, percent).
RawCell(col, kind, i, n) ==
    CASE kind = "garbage" -> RawBad
      [] kind = "gap_lead" /\ i = 1 -> RawBad
      [] kind = "gap_mid" /\ i = 2 /\ n > 2 -> RawNull
      [] kind = "gap_tail" /\ i = n -> RawNull
      [] OTHER ->
            CASE col = "kwh" -> 100 + 12 * ((i * 7) % 5) + 6 * (i % 3)
              [] col = "ikw_tr" -> 110 + 2 * ((i * 3) % 8)
              [] col = "ambient_temp" -> 20 + ((i * 5) % 7)
              [] col = "load_profile" -> 50 + 3 * (i % 10)
              [] OTHER -> 40 + i

\* The canonical column a raw column name is meant for.
Canonical(name) == Renamed(name)

\* A raw table (the frame read_csv returns): for each raw column name a kind
\* of content; stamps[i] is the raw timestamp cell of row i.
RawTable(tsName, kinds, stamps) ==
    LET n == Len(stamps)
        cols == {tsName} \cup DOMAIN kinds
    IN  Table(cols, RangeIndex(n),
              [i \in 1..n |->
                  [c \in cols |->
                      IF c = tsName THEN stamps[i]
                      ELSE RawCell(Canonical(c), kinds[c], i, n)]])

\* Raw timestamp cells: unparsable text, or a date at hour 1 or 2.
StampCells == {RawBad, 1, 2}

SeqsUpTo(S, n) == UNION {[1..k -> S] : k \in 0..n}

TimestampNames == {"timestamp", " Date ", "Time Stamp"}

\* The raw columns a small table may carry for each core parameter, with the
\* kind of their content; "-" for no such column.
KwhOptions == {<<"-", "-">>, <<"Energy Consumption", "gap_mid">>, <<"kWh", "garbage">>}
IkwOptions == {<<"-", "-">>, <<"kW per TR", "gap_lead">>}
TempOptions == {<<"-", "-">>, <<"Outdoor-Temp", "valid">>}
LoadOptions == {<<"-", "-">>, <<"Load", "gap_tail">>}

KindsOf(opts) ==
    LET used == {o \in opts : o[1] # "-"}
    IN  [c \in {o[1] : o \in used} |-> (CHOOSE o \in used : o[1] = c)[2]]

SmallRawTables ==
    { RawTable(t, KindsOf({k, e, a, l} \cup {<<"Humidity %", "valid">>}), st) :
        t \in TimestampNames, k \in KwhOptions, e \in IkwOptions,
        a \in TempOptions, l \in LoadOptions, st \in SeqsUpTo(StampCells, MaxRows) }

\* Hourly logs: n rows one hour apart from hour 5 on, written oldest first;
\* the longest log also newest first.
BigConfigs ==
    { ("kWh" :> "valid") @@ ("iKW-TR" :> "valid") @@ ("ambient_temp" :> "valid") @@ ("Load" :> "valid"),
      ("iKW-TR" :> "valid") @@ ("ambient_temp" :> "valid") @@ ("Load" :> "valid"),
      ("kWh" :> "valid") @@ ("kW per TR" :> "garbage") @@ ("ambient_temp" :> "valid") @@ ("Load" :> "valid"),
      ("kWh" :> "valid") @@ ("iKW-TR" :> "valid") @@ ("Outdoor-Temp" :> "garbage"),
      ("Energy Consumption" :> "valid") @@ ("iKW-TR" :> "valid") @@ ("ambient_temp" :> "valid") }

BigSizes == {MinTrainingRows + 23, MinTrainingRows + 24, MaxBigRows}

BigOrders(n) == IF n = MaxBigRows THEN BOOLEAN ELSE {FALSE}

BigRawTables ==
    UNION { { RawTable(" Date ", kinds, [i \in 1..n |-> IF newestFirst THEN 5 + n - i ELSE 4 + i]) :
                kinds \in BigConfigs, newestFirst \in BigOrders(n) } : n \in BigSizes }

\* ------------------------------------------------------------------------
\* hvac_ai_agent/app.py: the script
\* ------------------------------------------------------------------------
VARIABLES
    pc,               \* where the script stands
    raw_df,           \* the frame read from the CSV file
    page,             \* the view chosen in the sidebar
    horizon_hours,    \* the horizon slider
    analysis,         \* analyze_data's result, None while unbound
    diagnostic,       \* run_diagnostics' result
    forecast,         \* forecast_demand's result
    recommendations,  \* generate_recommendations' result
    error,            \* the message st.error shows, None without an error
    shown,            \* the artefacts the page has rendered
    fc,               \* a call of forecast_demand on its own: its frame
    rec,              \* a call of generate_recommendations on its own
    gap,              \* a column passing through the gap-filling loop on its own
    agent,            \* a run of AnalyzerAgent on its own
    diag              \* a call of run_diagnostics on its own

vars == <<pc, raw_df, page, horizon_hours, analysis, diagnostic, forecast,
          recommendations, error, shown, fc, rec, gap, agent, diag>>

appVars == <<pc, raw_df, page, horizon_hours, analysis, diagnostic, forecast,
             recommendations, error, shown>>

Pages == {"Overview", "Forecast & Diagnostics", "Recommendations & Report"}

\* The slider: 24 to 168 in steps of 24, 48 by default.
HorizonChoices == {24}
DefaultHorizon == 48

\* What each page renders of the run's results; the bubbles above the pages
\* show the forecast peak, the anomaly count and the average efficiency.
Rendered(p) ==
    {"forecast_peak", "anomaly_count", "kpis"} \cup
    (CASE p = "Overview" -> {"kpis", "anomaly_ratio", "clean_df"}
       [] p = "Forecast & Diagnostics" -> {"forecast", "anomalies"}
       [] OTHER -> {"recommendations", "correlations", "report"})

AppInit ==
    /\ pc = "analyze"
    /\ \/ /\ raw_df \in SmallRawTables
          /\ page = "Overview"
          /\ horizon_hours = DefaultHorizon
       \/ /\ raw_df \in BigRawTables
          /\ page \in Pages
          /\ horizon_hours \in HorizonChoices
    /\ analysis = None
    /\ diagnostic = None
    /\ forecast = None
    /\ recommendations = None
    /\ error = None
    /\ shown = {}

\* except Exception as exc: st.error(...); st.stop()
StopMissing(msg) ==
    /\ error' = [message |-> msg]
    /\ shown' = {"error"} \cup Rendered(page)
    /\ pc' = "stopped"
Stop(msg) ==
    /\ error' = [message |-> msg]
    /\ shown' = {"error"}
    /\ pc' = "stopped"

\* analysis = analyze_data(raw_df); clean_df = analysis.cleaned_df
Analyze ==
    /\ pc = "analyze"
    /\ \E ties \in SortOutcomes(normalize_columns(raw_df)) :
          LET r == analyze_data(raw_df, ties)
              df == DerivedFrame(DataFrameCopy(raw_df), normalize_columns(raw_df))
          IN  IF r.ok
              THEN /\ analysis' = r.value
                   /\ raw_df' = CallerFrame(raw_df, InPlace(df, r.value.cleaned_df))
                   /\ pc' = "diagnose"
                   /\ UNCHANGED <<error, shown>>
              ELSE /\ Stop(r.error)
                   /\ raw_df' = CallerFrame(raw_df, df)
                   /\ UNCHANGED analysis
    /\ UNCHANGED <<page, horizon_hours, diagnostic, forecast, recommendations, fc, rec, gap, agent, diag>>

\* Whether the frame holds a missing value in one of the columns given.
HasNaN(df, cols) == \E i \in 1..NRows(df) : \E c \in cols : df.rows[i][c] = NaN

\* diagnostic = run_diagnostics(clean_df).  Whether IsolationForest takes a
\* frame with missing values depends on the sklearn installed: it flags
\* rows, or it raises ValueError.
Diagnose ==
    /\ pc = "diagnose"
    /\ LET df == analysis.cleaned_df
           feature_cols == NUMERIC_COLUMNS \cap df.columns
           runs_iso == Cardinality(feature_cols) >= MinIsoFeatures /\ NRows(df) >= MinIsoRows
           work_df == DataFrameCopy(df)
       IN  \/ /\ \E iso \in IsoOutcomes(NRows(df)) : diagnostic' = run_diagnostics(df, iso)
              /\ analysis' = [analysis EXCEPT !.cleaned_df =
                                 CallerFrame(df, InPlace(work_df, diagnostic'.anomaly_df))]
              /\ pc' = "forecast"
              /\ UNCHANGED <<error, shown>>
           \/ /\ runs_iso
              /\ HasNaN(df, feature_cols)
              /\ Stop("Input X contains NaN.")
              /\ analysis' = [analysis EXCEPT !.cleaned_df = CallerFrame(df, work_df)]
              /\ UNCHANGED diagnostic
    /\ UNCHANGED <<raw_df, page, horizon_hours, forecast, recommendations, fc, rec, gap, agent, diag>>

\* forecast = forecast_demand(clean_df, horizon_hours=horizon_hours)
Forecast ==
    /\ pc = "forecast"
    /\ \E ties \in SortOutcomes(analysis.cleaned_df) :
          LET prepared == ForecastPrepare(analysis.cleaned_df, ties)
          IN  IF prepared.ok
              THEN /\ \E model \in FittedModels(analysis.cleaned_df) :
                         forecast' = ForecastRun(prepared.value, horizon_hours, model)
                   /\ analysis' = [analysis EXCEPT !.cleaned_df =
                                      CallerFrame(@, DataFrameCopy(
                                          DerivedFrame(DataFrameCopy(@), prepared.value.work_df).frame))]
                   /\ pc' = "recommend"
                   /\ UNCHANGED <<error, shown>>
              ELSE /\ Stop(prepared.error)
                   /\ analysis' = [analysis EXCEPT !.cleaned_df =
                                      CallerFrame(@, DerivedFrame(DataFrameCopy(@), @))]
                   /\ UNCHANGED forecast
    /\ UNCHANGED <<raw_df, page, horizon_hours, diagnostic, recommendations, fc, rec, gap, agent, diag>>

\* recommendations = generate_recommendations(analysis.kpis,
\*     analysis.correlations, diagnostic.summary, forecast.forecast_df)
\* and, when nothing was raised, the rest of the script: the page.
Recommend ==
    /\ pc = "recommend"
    /\ LET r == generate_recommendations(analysis.kpis, analysis.correlations,
                                         diagnostic.summary, forecast.forecast_df,
                                         DefaultEfficiencyThreshold)
       IN  IF r.ok
           THEN /\ recommendations' = r.value
                /\ shown' = Rendered(page)
                /\ pc' = "done"
                /\ UNCHANGED error
           ELSE /\ Stop(r.error)
                /\ UNCHANGED recommendations
    /\ UNCHANGED <<raw_df, page, horizon_hours, analysis, diagnostic, forecast, fc, rec, gap, agent, diag>>

Init ==
    /\ AppInit
    /\ fc = None
    /\ rec = None
    /\ gap = None
    /\ agent = None
    /\ diag = None

Next == Analyze \/ Diagnose \/ Forecast \/ Recommend

Spec == Init /\ [][Next]_vars

\* ------------------------------------------------------------------------
\* forecast_demand called on its own, one pass of its loop at a time
\* ------------------------------------------------------------------------
\* Raw timestamps of n rows: hourly, every two hours, hourly with one hour
\* left out, hourly with the first hour logged twice.
Spacings == {"hourly", "two_hourly", "hole", "duplicate"}
FcStamps(n, spacing) ==
    [i \in 1..n |->
        CASE spacing = "hourly" -> 4 + i
          [] spacing = "two_hourly" -> 3 + 2 * i
          [] spacing = "hole" -> IF i > 3 THEN 5 + i ELSE 4 + i
          [] OTHER -> IF i > 1 THEN 3 + i ELSE 4 + i]

FcSizes == {0, MinTrainingRows, MinTrainingRows + 23, MinTrainingRows + 24, MaxBigRows}

\* The tables forecast_demand is given: cleaned tables, as analyze_data
\* returns them.
FcTables ==
    LET results == { analyze_data(RawTable("timestamp", kinds, FcStamps(n, sp)), ties) :
                        kinds \in BigConfigs, n \in FcSizes, sp \in Spacings,
                        ties \in TieOrders }
    IN  { r.value.cleaned_df : r \in {x \in results : x.ok} }

\* The horizons asked of a frame: none, a few hours and, of the longest
\* frames, more than a day.
FcHorizons(df) ==
    (0..MaxHorizon) \cup (IF NRows(df) = MaxBigRows THEN {LongHorizon} ELSE {})

FcInit ==
    fc \in UNION { { [pc |-> "call", df |-> df, horizon_hours |-> h, prepared |-> None,
                      model |-> None, history |-> None, future_rows |-> <<>>,
                      features |-> None, result |-> None] : h \in FcHorizons(df) } :
                   df \in FcTables }

\* The checks up to `if len(X) < 30: raise`.
FcValidate ==
    /\ fc # None
    /\ fc.pc = "call"
    /\ \E ties \in SortOutcomes(fc.df) :
          LET prepared == ForecastPrepare(fc.df, ties)
          IN  IF prepared.ok
              THEN fc' = [fc EXCEPT !.pc = "fit", !.prepared = prepared.value]
              ELSE fc' = [fc EXCEPT !.pc = "raised", !.result = prepared]
    /\ UNCHANGED appVars
    /\ UNCHANGED <<rec, gap, agent, diag>>

\* model.fit(X, y) and the set-up of the loop.
FcFit ==
    /\ fc # None
    /\ fc.pc = "fit"
    /\ \E model \in FittedModels(fc.prepared.work_df) :
          fc' = [fc EXCEPT !.pc = "loop", !.model = model,
                           !.history = fc.prepared.work_df, !.future_rows = <<>>]
    /\ UNCHANGED appVars
    /\ UNCHANGED <<rec, gap, agent, diag>>

\* One pass of `for _ in range(horizon_hours)`.
FcIterate ==
    /\ fc # None
    /\ fc.pc = "loop"
    /\ Len(fc.future_rows) < fc.horizon_hours
    /\ LET step == ForecastStep(fc.history, fc.model, fc.prepared.feature_defaults,
                                fc.prepared.inferred_freq)
       IN  fc' = [fc EXCEPT !.history = step.history,
                            !.future_rows = Append(fc.future_rows, step.row),
                            !.features = step.features]
    /\ UNCHANGED appVars
    /\ UNCHANGED <<rec, gap, agent, diag>>

\* return ForecastResult(forecast_df=pd.DataFrame(future_rows), ...)
FcReturn ==
    /\ fc # None
    /\ fc.pc = "loop"
    /\ Len(fc.future_rows) >= fc.horizon_hours
    /\ fc' = [fc EXCEPT !.pc = "returned",
                        !.result = Returned([forecast_df |->
                                                DataFrameOf(fc.future_rows, {"timestamp", "pred_kwh"}),
                                             model_summary |-> fc.model])]
    /\ UNCHANGED appVars
    /\ UNCHANGED <<rec, gap, agent, diag>>

AppIdle ==
    /\ pc = "idle"
    /\ raw_df = None
    /\ page = "Overview"
    /\ horizon_hours = DefaultHorizon
    /\ analysis = None
    /\ diagnostic = None
    /\ forecast = None
    /\ recommendations = None
    /\ error = None
    /\ shown = {}

InitForecast ==
    /\ AppIdle
    /\ FcInit
    /\ rec = None
    /\ gap = None
    /\ agent = None
    /\ diag = None

NextForecast == FcValidate \/ FcFit \/ FcIterate \/ FcReturn

SpecForecast == InitForecast /\ [][NextForecast]_vars

\* ------------------------------------------------------------------------
\* generate_recommendations called on its own
\* ------------------------------------------------------------------------
\* summary: avg_kwh 100, avg_kwh NaN, or no avg_kwh at all.
RecSummaries == { [avg_kwh |-> Ratio(100, 1)], [avg_kwh |-> NaNRatio], [records |-> Ratio(7, 1)] }

\* forecast_df: up to MaxRecRows rows of (timestamp, forecast_kWh).
RecForecasts ==
    { DataFrameOf([i \in 1..Len(v) |-> [timestamp |-> 100 + i, forecast_kWh |-> v[i]]],
                  {"timestamp", "forecast_kWh"}) :
        v \in SeqsUpTo({90, 110, 111, 130}, MaxRecRows) }

\* anomalies_df: up to MaxRecRows flagged rows.
RecAnomalies ==
    { DataFrameOf([i \in 1..k |-> [timestamp |-> i, kwh |-> 300]], {"timestamp", "kwh"}) :
        k \in 0..MaxRecRows }

\* full_df: iKW_TR in hundredths: no row; one row; 30 rows of which the
\* early ones are high and the last 24 low; 30 rows all high; one NaN row.
RecFullFrames ==
    { DataFrameOf([i \in 1..Len(v) |-> [timestamp |-> i, iKW_TR |-> v[i]]], {"timestamp", "iKW_TR"}) :
        v \in { <<>>, <<120>>, <<121>>, <<NaN>>,
                [i \in 1..30 |-> IF i <= 6 THEN 400 ELSE 110],
                [i \in 1..30 |-> 125] } }
        \cup { Table({"timestamp", "iKW_TR"}, <<>>, <<>>) }

RecThresholds == {DefaultEfficiencyThreshold, 100}

RecInit ==
    rec \in { [pc |-> "call", summary |-> s0, forecast_df |-> f, anomalies_df |-> a,
               full_df |-> d, efficiency_threshold |-> t, result |-> None] :
              s0 \in RecSummaries, f \in RecForecasts, a \in RecAnomalies,
              d \in RecFullFrames, t \in RecThresholds }

RecCall ==
    /\ rec # None
    /\ rec.pc = "call"
    /\ LET result == generate_recommendations(rec.summary, rec.forecast_df,
                          rec.anomalies_df, rec.full_df, rec.efficiency_threshold)
       IN  rec' = [rec EXCEPT !.pc = IF result.ok THEN "returned" ELSE "raised",
                              !.result = result]
    /\ UNCHANGED appVars
    /\ UNCHANGED <<fc, gap, agent, diag>>

InitRecommend ==
    /\ AppIdle
    /\ fc = None
    /\ RecInit
    /\ gap = None
    /\ agent = None
    /\ diag = None

NextRecommend == RecCall

SpecRecommend == InitRecommend /\ [][NextRecommend]_vars

\* ------------------------------------------------------------------------
\* analyzer.py: one column passing through the gap-filling loop on its own
\* ------------------------------------------------------------------------
\* The readings a column may hold, and its greatest length.
GapValues == {NaN, 10, 14, 30}
MaxGapLen == 5

GapInit ==
    gap \in { [pc |-> "interpolate", original |-> s, series |-> s] :
              s \in SeqsUpTo(GapValues, MaxGapLen) }

\* df[col] = df[col].interpolate(limit_direction="both")
GapInterpolate ==
    /\ gap # None
    /\ gap.pc = "interpolate"
    /\ gap' = [gap EXCEPT !.pc = "fillna", !.series = interpolate(gap.series)]
    /\ UNCHANGED appVars
    /\ UNCHANGED <<fc, rec, agent, diag>>

\* df[col] = df[col].fillna(df[col].median())
GapFillna ==
    /\ gap # None
    /\ gap.pc = "fillna"
    /\ gap' = [gap EXCEPT !.pc = "filled",
                          !.series = fillna(gap.series, median(gap.series))]
    /\ UNCHANGED appVars
    /\ UNCHANGED <<fc, rec, agent, diag>>

InitFill ==
    /\ AppIdle
    /\ fc = None
    /\ rec = None
    /\ GapInit
    /\ agent = None
    /\ diag = None

NextFill == GapInterpolate \/ GapFillna

SpecFill == InitFill /\ [][NextFill]_vars

\* ------------------------------------------------------------------------
\* app.py: the analyzer run again and again on one frame as the
\* sensitivity slider is moved
\* ------------------------------------------------------------------------
\* Hourly frames of n rows: kWh is 100 with the heights of `spikes` added to
\* the first rows and `lift` added to the last twelve; ambient_temp is flat,
\* rises with kWh or falls with it.
AgentSizes == {0, 1, 13, 40, 75}
AgentSpikes == { <<>>, <<10, 10, 10, 10>>, <<10, 10, 10, 10, 10, 10, 10, 10>>,
                 <<30, 26, 22, 18, 18>> }
AgentLifts == {0, 9, 13}
AgentTemps == {"flat", "rises", "falls"}

AgentFrame(n, spikes, lift, temp) ==
    LET kwh(i) == 100 + (IF i <= Len(spikes) THEN spikes[i] ELSE 0)
                      + (IF i > n - RecentHours THEN lift ELSE 0)
    IN  Table({"timestamp", "kWh", "iKW-TR", "ambient_temp", "load_profile"},
              RangeIndex(n),
              [i \in 1..n |->
                  [c \in {"timestamp", "kWh", "iKW-TR", "ambient_temp", "load_profile"} |->
                      CASE c = "timestamp" -> i
                        [] c = "kWh" -> kwh(i)
                        [] c = "iKW-TR" -> 110 + (i % 3)
                        [] c = "ambient_temp" ->
                              (CASE temp = "flat" -> 30
                                 [] temp = "rises" -> 30 + (kwh(i) - 100) \div 4
                                 [] OTHER -> 30 - (kwh(i) - 100) \div 4)
                        [] OTHER -> 60]])

AgentFrames ==
    { AgentFrame(n, spikes, lift, temp) :
        n \in AgentSizes, spikes \in AgentSpikes, lift \in AgentLifts, temp \in AgentTemps }

\* No run yet: the results by sensitivity are the empty mapping.
AgentInit ==
    agent \in { [df |-> df, runs |-> <<>>] : df \in AgentFrames }

\* analyzer = AnalyzerAgent(sensitivity=anomaly_sensitivity)
\* analyzer_result = analyzer.run(df)
AgentRun ==
    /\ agent # None
    /\ \E anomaly_sensitivity \in Sensitivities \ DOMAIN agent.runs :
          agent' = [agent EXCEPT !.runs =
                       (anomaly_sensitivity :>
                            AgentRunResult(AnalyzerAgent(anomaly_sensitivity), agent.df))
                       @@ agent.runs]
    /\ UNCHANGED appVars
    /\ UNCHANGED <<fc, rec, gap, diag>>

InitAgent ==
    /\ AppIdle
    /\ fc = None
    /\ rec = None
    /\ gap = None
    /\ AgentInit
    /\ diag = None

NextAgent == AgentRun

SpecAgent == InitAgent /\ [][NextAgent]_vars

\* ------------------------------------------------------------------------
\* diagnostic.py: a call of run_diagnostics on its own
\* ------------------------------------------------------------------------
\* Frames of n hourly rows over a choice of the core columns.  kwh is
\* level, or level with one spike in the middle row; ambient_temp may hold
\* no reading at all; ikw_tr (in hundredths) goes round four values, rises
\* from row to row, falls, stands at zero over the first seven rows, or
\* holds no reading at all.
DiagSizes == {0, 1, 2, 9, 10, MinIsoRows - 1, MinIsoRows, 30}
DiagShapes == {"level", "spike"}
DiagEfficiencies == {"cycle", "worsening", "improving", "zero_start", "missing"}

DiagFrame(n, cols, shape, tempMissing, eff) ==
    Table({"timestamp"} \cup cols, RangeIndex(n),
          [i \in 1..n |->
              [c \in {"timestamp"} \cup cols |->
                  CASE c = "timestamp" -> i
                    [] c = "ambient_temp" /\ tempMissing -> NaN
                    [] c = "kwh" -> 100 + (IF shape = "spike" /\ i = (n + 1) \div 2 THEN 50 ELSE 0)
                    [] c = "ikw_tr" /\ eff = "worsening" -> 100 + i
                    [] c = "ikw_tr" /\ eff = "improving" -> 140 - i
                    [] c = "ikw_tr" /\ eff = "zero_start" -> IF i <= 7 THEN 0 ELSE 100 + i
                    [] c = "ikw_tr" /\ eff = "missing" -> NaN
                    [] OTHER -> 40 + (i % 4)]])

DiagFrames ==
    { DiagFrame(n, cols, shape, tempMissing, eff) :
        n \in DiagSizes, cols \in SUBSET NUMERIC_COLUMNS, shape \in DiagShapes,
        tempMissing \in BOOLEAN, eff \in DiagEfficiencies }

DiagInit ==
    diag \in { [pc |-> "call", df |-> df, iso_anomaly |-> <<>>, result |-> None] :
               df \in DiagFrames }

\* run_diagnostics(df): returns, with the rows the forest flagged when it
\* ran, or raises in the forest on a missing value.
DiagCall ==
    /\ diag # None
    /\ diag.pc = "call"
    /\ LET df == diag.df
           feature_cols == NUMERIC_COLUMNS \cap df.columns
           runs_iso == Cardinality(feature_cols) >= MinIsoFeatures /\ NRows(df) >= MinIsoRows
           none == [i \in 1..NRows(df) |-> FALSE]
       IN  \/ \E iso \in (IF runs_iso THEN IsoOutcomes(NRows(df)) ELSE {none}) :
                 diag' = [diag EXCEPT !.pc = "returned",
                                      !.iso_anomaly = iso,
                                      !.result = Returned(run_diagnostics(df, iso))]
           \/ /\ runs_iso
              /\ HasNaN(df, feature_cols)
              /\ diag' = [diag EXCEPT !.pc = "raised",
                                      !.result = Raised("Input X contains NaN.")]
    /\ UNCHANGED appVars
    /\ UNCHANGED <<fc, rec, gap, agent>>

InitDiagnose ==
    /\ AppIdle
    /\ fc = None
    /\ rec = None
    /\ gap = None
    /\ agent = None
    /\ DiagInit

NextDiagnose == DiagCall

SpecDiagnose == InitDiagnose /\ [][NextDiagnose]_vars

\* ------------------------------------------------------------------------
\* Properties
\* ------------------------------------------------------------------------
\* The rows forecast_demand has returned.
ReturnedForecast == fc.result.value.forecast_df.rows

\* C1: when forecast_demand returns for a horizon h >= 0, the forecast has
\* exactly h rows and every predicted energy in it is >= 0.
C1_HorizonContract ==
    (fc.pc = "returned") =>
        /\ fc.result.ok
        /\ Len(ReturnedForecast) = fc.horizon_hours
        /\ \A i \in 1..Len(ReturnedForecast) : ReturnedForecast[i].pred_kwh >= 0

\* C1 happens: a forecast of the largest horizon has been returned, and one
\* of its predictions was negative before it was clamped to 0.
C1_Witness ==
    /\ fc.pc = "returned"
    /\ fc.horizon_hours = MaxHorizon
    /\ \E i \in 1..Len(ReturnedForecast) : ReturnedForecast[i].pred_kwh = 0
    /\ \E i \in 1..Len(ReturnedForecast) : ReturnedForecast[i].pred_kwh > 0

\* The number of rows of the table given to forecast_demand whose feature
\* vector holds no missing value: the timestamp is there (hour, day of
\* week), there is an energy value one row and 24 rows earlier, and
\* ambient_temp and load_profile hold a value where the table has them.
CompleteFeatureRows(df) ==
    Cardinality({ i \in 1..NRows(df) :
        /\ df.rows[i]["timestamp"] # NaT
        /\ i > 24
        /\ df.rows[i - 1]["kwh"] # NaN
        /\ df.rows[i - 24]["kwh"] # NaN
        /\ ("ambient_temp" \in df.columns => df.rows[i]["ambient_temp"] # NaN)
        /\ ("load_profile" \in df.columns => df.rows[i]["load_profile"] # NaN) })

MustFail(df) == "kwh" \notin df.columns \/ CompleteFeatureRows(df) < 30

\* C5: forecast_demand raises exactly when the table lacks the energy column
\* or has fewer than 30 rows with a complete feature vector, and it raises
\* before any forecast row exists.
C5_FailsExactlyWhenShort ==
    (fc.pc # "call") =>
        /\ (fc.pc = "raised") <=> MustFail(fc.df)
        /\ (fc.pc = "raised") => (~fc.result.ok /\ fc.future_rows = <<>> /\ fc.history = None)

\* C5 happens: a table with the energy column and 29 complete feature rows
\* has been refused.
C5_Witness ==
    /\ fc.pc = "raised"
    /\ "kwh" \in fc.df.columns
    /\ CompleteFeatureRows(fc.df) = 29

\* The other side of C5: a table with exactly 30 complete feature rows has
\* been forecast from.
C5_AcceptedAtThirty ==
    /\ fc.pc = "returned"
    /\ CompleteFeatureRows(fc.df) = 30
    /\ fc.horizon_hours > 0

\* The list generate_recommendations has returned.
ReturnedRecommendations == rec.result.value

\* C6: whatever the summary, the forecast series (an empty one included),
\* the anomaly set and the efficiency threshold, generate_recommendations
\* returns a list with at least one recommendation.
C6_NeverEmpty ==
    (rec.pc = "returned") =>
        /\ rec.result.ok
        /\ Len(ReturnedRecommendations) >= 1

\* C6 happens: the call has returned for an empty forecast series, no
\* anomaly and a summary without avg_kwh.
C6_Witness ==
    /\ rec.pc = "returned"
    /\ NRows(rec.forecast_df) = 0
    /\ NRows(rec.anomalies_df) = 0
    /\ "avg_kwh" \notin DOMAIN rec.summary
    /\ Len(ReturnedRecommendations) >= 1

\* The mean forecast the demand rule compares: of the forecast series, or
\* the baseline avg_kwh (0.0 when the summary has none) for an empty series.
RecBaseline ==
    IF "avg_kwh" \in DOMAIN rec.summary THEN rec.summary["avg_kwh"] ELSE Ratio(0, 1)
RecForecastAvg ==
    IF NRows(rec.forecast_df) = 0 THEN RecBaseline
    ELSE Mean(Column(rec.forecast_df, "forecast_kWh"))
RecRecentEff ==
    LET eff == Column(rec.full_df, "iKW_TR")
    IN  Mean(SubSeq(eff, Max(1, Len(eff) - 23), Len(eff)))

\* No rule fires: the mean forecast is not above 1.1 times the baseline,
\* the recent efficiency is not above the threshold, nothing is anomalous.
\* A comparison with a missing value does not fire.
NoRuleFires ==
    /\ ~(/\ RecForecastAvg.den > 0
         /\ RecBaseline.den > 0
         /\ 10 * RecForecastAvg.num * RecBaseline.den > 11 * RecBaseline.num * RecForecastAvg.den)
    /\ ~(/\ RecRecentEff.den > 0
         /\ RecRecentEff.num > rec.efficiency_threshold * RecRecentEff.den)
    /\ NRows(rec.anomalies_df) = 0

\* C7 as stated: when no rule fires the list holds exactly one finding.
C7_ExactlyOneWhenCalm ==
    (rec.pc = "returned" /\ NoRuleFires) => Len(ReturnedRecommendations) = 1

\* C7: when no rule fires the list holds exactly three recommendations, the
\* calm message of each rule in rule order, and nothing else.
C7_ThreeCalmMessages ==
    (rec.pc = "returned" /\ NoRuleFires) =>
        /\ rec.result.ok
        /\ [i \in 1..Len(ReturnedRecommendations) |-> ReturnedRecommendations[i].text]
             = << "Forecasted demand is near baseline.",
                  "Recent iKW_TR is within target threshold.",
                  "No strong anomalies detected." >>

\* C7 happens: the call has returned with no rule fired, the mean forecast
\* standing exactly at 1.1 times the baseline and the recent efficiency
\* exactly at the threshold.
C7_Witness ==
    /\ rec.pc = "returned"
    /\ NoRuleFires
    /\ NRows(rec.forecast_df) > 0
    /\ RecBaseline.den > 0
    /\ 10 * RecForecastAvg.num * RecBaseline.den = 11 * RecBaseline.num * RecForecastAvg.den
    /\ RecRecentEff.den > 0
    /\ RecRecentEff.num = rec.efficiency_threshold * RecRecentEff.den

\* The run has left the forecast stage with an error: KPIs and anomalies
\* were computed, forecast_demand raised.
ForecastStageFailed ==
    /\ pc = "stopped"
    /\ analysis # None
    /\ diagnostic # None
    /\ forecast = None

\* C2 as stated: when the forecast stage fails, the KPI/correlation and the
\* anomaly output of the run are still delivered and recommendations are
\* still produced.
C2_ForecastFailureIsolated ==
    ForecastStageFailed =>
        /\ "kpis" \in shown
        /\ {"anomaly_count", "anomalies", "anomaly_ratio"} \cap shown # {}
        /\ recommendations # None

\* C2 amended: when the forecast stage fails the run stops there: the error
\* message is all the page shows, the KPI/correlation and anomaly outputs
\* computed for the run are not delivered, and no recommendation is produced.
C2_ForecastFailureStopsRun ==
    ForecastStageFailed =>
        /\ shown = {"error"}
        /\ error # None
        /\ error.message \in {"Forecasting requires kwh column.",
                              "Not enough data for forecasting. Provide at least 30 valid records."}
        /\ recommendations = None

\* C2 happens: a table that passed normalization, with KPIs and an anomaly
\* summary computed, was refused by the forecaster for lack of rows.
C2_Witness ==
    /\ ForecastStageFailed
    /\ analysis.kpis.records > 0
    /\ diagnostic.summary.anomaly_count >= 0
    /\ error.message = "Not enough data for forecasting. Provide at least 30 valid records."

\* C3 as stated: once KPI, anomaly and forecast results are all available,
\* the Recommendation Engine is called with them and returns a list, so the
\* run reaches its output stage without any stage raising.
C3_RecommendationCompletes ==
    (analysis # None /\ diagnostic # None /\ forecast # None /\ pc # "recommend") =>
        /\ pc = "done"
        /\ recommendations # None
        /\ error = None

\* The canonical names of the raw columns.
FoldedColumns(raw) == {Renamed(c) : c \in raw.columns}

\* Normalization fails on the raw table: no timestamp column after name
\* folding, or fewer than 3 core parameters.
NormalizationFails(raw) ==
    \/ "timestamp" \notin FoldedColumns(raw)
    \/ Cardinality(FoldedColumns(raw) \cap {"kwh", "ikw_tr", "ambient_temp", "load_profile"}) < 3

\* C4: when normalization fails the run aborts before the anomaly, forecast
\* and recommendation stages, and no partial result reaches the caller.
C4_NormalizationAborts ==
    NormalizationFails(raw_df) =>
        /\ pc \in {"analyze", "stopped"}
        /\ analysis = None /\ diagnostic = None /\ forecast = None /\ recommendations = None
        /\ pc = "stopped" => (shown = {"error"} /\ error # None)

\* C4 happens: a table with a timestamp column and two core parameters has
\* been refused.
C4_Witness ==
    /\ pc = "stopped"
    /\ "timestamp" \in FoldedColumns(raw_df)
    /\ Cardinality(FoldedColumns(raw_df) \cap NUMERIC_COLUMNS) = 2
    /\ NRows(raw_df) = MaxRows

\* The core columns of a cleaned table that hold a number in some row.
NumericCore(df) ==
    { c \in NUMERIC_COLUMNS \cap df.columns : \E i \in 1..NRows(df) : df.rows[i][c] # NaN }

RawStamps(raw) ==
    LET c == CHOOSE x \in raw.columns : Renamed(x) = "timestamp"
    IN  [i \in 1..NRows(raw) |-> raw.rows[i][c]]

Parsable(cell) == cell \notin {RawBad, RawNull}

\* C9: the normalized table has non-decreasing timestamps, holds exactly the
\* rows of the input whose timestamp parsed, and is indexed 0, 1, 2, ...
C9_SortedCleanIndexed ==
    (analysis # None) =>
        LET df == analysis.cleaned_df
            ts == Column(df, "timestamp")
            in == RawStamps(raw_df)
        IN  /\ \A i \in 2..Len(ts) : ts[i - 1] <= ts[i]
            /\ \A i \in 1..Len(ts) : ts[i] # NaT /\ Parsable(ts[i])
            /\ Len(ts) = Cardinality({i \in 1..Len(in) : Parsable(in[i])})
            /\ \A i \in 1..Len(ts) : df.index[i] = i - 1
            /\ Len(df.index) = Len(ts)

\* C9 happens: a table whose timestamps came newest first, one of them
\* unparsable, has been normalized.
C9_Witness ==
    /\ analysis # None
    /\ \E i \in 1..NRows(raw_df) : ~Parsable(RawStamps(raw_df)[i])
    /\ \E i \in 1..NRows(raw_df) : \E j \in (i + 1)..NRows(raw_df) :
          /\ Parsable(RawStamps(raw_df)[i])
          /\ Parsable(RawStamps(raw_df)[j])
          /\ RawStamps(raw_df)[i] > RawStamps(raw_df)[j]

\* C10 as stated: in the cleaned table no two rows share a timestamp.
C10_StrictlyIncreasing ==
    (analysis # None) =>
        LET ts == Column(analysis.cleaned_df, "timestamp")
        IN  \A i \in 2..Len(ts) : ts[i - 1] < ts[i]

\* How many cells of the series equal v.
Occurrences(s, v) == Cardinality({i \in 1..Len(s) : s[i] = v})

\* C10 amended: rows that share a timestamp are all kept: every timestamp
\* occurs in the cleaned table as often as it occurs in the input, so the
\* timestamps are non-decreasing but repeat wherever the input repeats one.
C10_DuplicatesKept ==
    (analysis # None) =>
        LET ts == Column(analysis.cleaned_df, "timestamp")
            in == RawStamps(raw_df)
        IN  \A i \in 1..Len(in) :
                Parsable(in[i]) => Occurrences(ts, in[i]) = Occurrences(in, in[i])

\* C10 happens: the cleaned table holds two rows with the same timestamp.
C10_Witness ==
    /\ analysis # None
    /\ LET ts == Column(analysis.cleaned_df, "timestamp")
       IN  \E i \in 2..Len(ts) : ts[i - 1] = ts[i]

\* C11 as stated: normalizing the normalized table again (name folding,
\* timestamp parsing and row dropping, sort, numeric coercion, gap filling)
\* is accepted and yields that table again.
C11_NormalizeIdempotent ==
    (pc = "diagnose") =>
        \A ties \in SortOutcomes(analysis.cleaned_df) :
            LET again == analyze_data(analysis.cleaned_df, ties)
            IN  /\ again.ok
                /\ again.value.cleaned_df = analysis.cleaned_df


\* ------------------------------------------------------------------------
\* C12: gap filling
\* ------------------------------------------------------------------------
\* Position i of the filled column r lies on the line through the values of
\* s at a and b, rounded down to the unit of the column.
OnLine(s, r, a, b, i) ==
    /\ (r[i] - s[a]) * (b - a) <= (s[b] - s[a]) * (i - a)
    /\ (s[b] - s[a]) * (i - a) < (r[i] - s[a] + 1) * (b - a)

InteriorGap(s, i) == s[i] = NaN /\ PrevValid(s, i) # 0 /\ NextValid(s, i) # 0
LeadingGap(s, i) == s[i] = NaN /\ PrevValid(s, i) = 0
TrailingGap(s, i) == s[i] = NaN /\ NextValid(s, i) = 0

GapFilled == gap # None /\ gap.pc = "filled"

\* C12 as stated: after gap filling a missing value between two values lies
\* on the line through them, and a missing value of a leading or trailing
\* gap is the median of the column as interpolation left it.
C12_EdgeGapsTakeMedian ==
    GapFilled =>
        LET s == gap.original
            r == gap.series
        IN  \A i \in 1..Len(s) :
                /\ InteriorGap(s, i) => OnLine(s, r, PrevValid(s, i), NextValid(s, i), i)
                /\ (LeadingGap(s, i) \/ TrailingGap(s, i)) => r[i] = median(InterpolateInside(s))

\* C12, amended: gap filling keeps every value that was there; a missing
\* value between two values lies on the line through them; a missing value
\* of a leading gap is the first value of the column and one of a trailing
\* gap the last value, both set by the interpolation itself; the median step
\* that follows finds nothing to fill in a column that holds a value, and a
\* column without any value stays missing throughout.
C12_EdgeGapsTakeNearest ==
    /\ (gap # None /\ gap.pc = "fillna") =>
            \A i \in 1..Len(gap.series) :
                gap.series[i] = NaN =>
                    /\ \A j \in 1..Len(gap.original) : gap.original[j] = NaN
                    /\ median(gap.series) = NaN
    /\ GapFilled =>
            LET s == gap.original
                r == gap.series
            IN  /\ Len(r) = Len(s)
                /\ \A i \in 1..Len(s) :
                        /\ s[i] # NaN => r[i] = s[i]
                        /\ InteriorGap(s, i) =>
                               OnLine(s, r, PrevValid(s, i), NextValid(s, i), i)
                        /\ (LeadingGap(s, i) /\ ~TrailingGap(s, i)) => r[i] = s[NextValid(s, i)]
                        /\ (TrailingGap(s, i) /\ ~LeadingGap(s, i)) => r[i] = s[PrevValid(s, i)]
                        /\ (LeadingGap(s, i) /\ TrailingGap(s, i)) => r[i] = NaN

\* A filled column that had a leading, an interior and a trailing gap, and
\* whose median differs from the value the leading gap received.
C12_Witness ==
    /\ GapFilled
    /\ \E i, j, k \in 1..Len(gap.original) :
           /\ LeadingGap(gap.original, i) /\ ~TrailingGap(gap.original, i)
           /\ InteriorGap(gap.original, j)
           /\ TrailingGap(gap.original, k) /\ ~LeadingGap(gap.original, k)
           /\ gap.series[i] # median(InterpolateInside(gap.original))
           /\ gap.series[j] # gap.original[PrevValid(gap.original, j)]

\* ------------------------------------------------------------------------
\* C13: a stricter sensitivity tier flags a subset
\* ------------------------------------------------------------------------
\* The index labels of the rows a run flagged.
FlaggedBy(result) ==
    {result.value.anomalies.index[k] : k \in 1..NRows(result.value.anomalies)}

\* Tier t1 is stricter than tier t2.
Stricter(t1, t2) ==
    \/ t1 = "Low" /\ t2 \in {"Medium", "High"}
    \/ t1 = "Medium" /\ t2 = "High"

\* C13: the cutoff falls from Low over Medium to High, and of two runs of the
\* analyzer on one frame the run under the stricter tier flags a subset of
\* the rows the run under the other tier flags.
C13_StricterFlagsSubset ==
    /\ ZThreshold("Low") > ZThreshold("Medium")
    /\ ZThreshold("Medium") > ZThreshold("High")
    /\ agent # None =>
          \A t1, t2 \in DOMAIN agent.runs :
              (Stricter(t1, t2) /\ agent.runs[t1].ok) =>
                  /\ agent.runs[t2].ok
                  /\ FlaggedBy(agent.runs[t1]) \subseteq FlaggedBy(agent.runs[t2])

\* One frame run under all three tiers, each flagging rows and each tier
\* flagging more than the stricter one.
C13_Witness ==
    /\ agent # None
    /\ DOMAIN agent.runs = Sensitivities
    /\ agent.runs["Low"].ok
    /\ FlaggedBy(agent.runs["Low"]) # {}
    /\ FlaggedBy(agent.runs["Low"]) # FlaggedBy(agent.runs["Medium"])
    /\ FlaggedBy(agent.runs["Medium"]) # FlaggedBy(agent.runs["High"])

\* ------------------------------------------------------------------------
\* C15: the order of the findings
\* ------------------------------------------------------------------------
SeverityRank(severity) ==
    CASE severity = "high" -> 0
      [] severity = "medium" -> 1
      [] OTHER -> 2

\* The place of a finding's rule in the order the rules are evaluated.
RuleOrder(title) ==
    CASE title = "Recent demand drift" -> 1
      [] title = "Weather sensitivity" -> 2
      [] title = "Anomaly concentration" -> 3
      [] OTHER -> 4

\* The findings of the runs that returned.
ReturnedFindings ==
    IF agent = None THEN {}
    ELSE {agent.runs[t].value.findings : t \in {u \in DOMAIN agent.runs : agent.runs[u].ok}}

\* C15: the findings a run returns are one per rule, all high before all
\* medium before all low, and findings of one severity stand in the order
\* of their rules: demand drift, weather sensitivity, anomaly concentration,
\* peak event.
C15_SeverityThenRuleOrder ==
    \A findings \in ReturnedFindings :
        /\ {RuleOrder(findings[i].title) : i \in 1..Len(findings)} = 1..4
        /\ Len(findings) = 4
        /\ \A i, j \in 1..Len(findings) :
              i < j =>
                 \/ SeverityRank(findings[i].severity) < SeverityRank(findings[j].severity)
                 \/ /\ findings[i].severity = findings[j].severity
                    /\ RuleOrder(findings[i].title) < RuleOrder(findings[j].title)

\* A run whose sort moved the third rule's finding to the front and left
\* two findings of one severity behind it, with a low finding last.
C15_Witness ==
    \E findings \in ReturnedFindings :
        /\ findings[1].title = "Anomaly concentration"
        /\ findings[2].severity = findings[3].severity
        /\ findings[4].severity = "low"

\* ------------------------------------------------------------------------
\* C14: the combined anomaly flag
\* ------------------------------------------------------------------------
\* The deviation of the energy column is zero or undefined: no row, or all
\* rows alike.
NoDeviation(series) ==
    \A i, j \in 1..Len(series) : series[i] = series[j]

\* Method A on row i: energy is present, its deviation is defined and not
\* zero, and the row lies more than three deviations from the mean.  With n
\* rows of sum S that is (n * x - S)^2 > 9 * (n * sum(x^2) - S^2).
MethodA(df, i) ==
    /\ "kwh" \in df.columns
    /\ LET x == Column(df, "kwh")
           n == Len(x)
           S == SumSeq(x)
           Q == SumSeq([k \in 1..n |-> x[k] * x[k]])
       IN  /\ ~NoDeviation(x)
           /\ (n * x[i] - S) * (n * x[i] - S) > 9 * (n * Q - S * S)

DiagBelowThreshold(df) ==
    \/ Cardinality(NUMERIC_COLUMNS \cap df.columns) < 2
    \/ NRows(df) < 20

\* C14: a call of run_diagnostics that returns gives every row one boolean
\* flag, Method A's flag or Method B's; with fewer than 2 core columns or
\* fewer than 20 rows the call returns and the flag is Method A's alone;
\* without an energy column, or with an energy column of zero or undefined
\* deviation, the flag is Method B's alone.
C14_FlagIsAOrB ==
    (diag # None /\ diag.pc # "call") =>
        LET df == diag.df
        IN  /\ DiagBelowThreshold(df) => diag.pc = "returned"
            /\ diag.pc = "returned" =>
                  LET out == diag.result.value.anomaly_df
                      flag == Column(out, "is_anomaly")
                  IN  /\ NRows(out) = NRows(df)
                      /\ out.index = df.index
                      /\ \A i \in 1..NRows(df) :
                            /\ flag[i] \in BOOLEAN
                            /\ flag[i] = (MethodA(df, i) \/ diag.iso_anomaly[i])
                            /\ DiagBelowThreshold(df) => flag[i] = MethodA(df, i)
                            /\ ("kwh" \notin df.columns \/ NoDeviation(Column(df, "kwh")))
                                  => flag[i] = diag.iso_anomaly[i]

\* A returned call on 19 rows over all four core columns that flagged the
\* spike by Method A alone.
C14_Witness ==
    /\ diag # None
    /\ diag.pc = "returned"
    /\ NRows(diag.df) = 19
    /\ Cardinality(NUMERIC_COLUMNS \cap diag.df.columns) = 4
    /\ \E i \in 1..NRows(diag.df) : diag.result.value.anomaly_df.rows[i]["is_anomaly"]

\* ------------------------------------------------------------------------
\* C16: the correlation set
\* ------------------------------------------------------------------------
\* C16 as stated: every correlation analyze_data reports is a number between
\* -1 and 1, never NaN.
C16_CorrelationsDefined ==
    (analysis # None) =>
        \A c \in DOMAIN analysis.correlations :
            /\ ~analysis.correlations[c].nan
            /\ analysis.correlations[c].cov * analysis.correlations[c].cov
                  <= analysis.correlations[c].vx * analysis.correlations[c].vy

\* ------------------------------------------------------------------------
\* C17: the functions leave the frame passed to them as it was
\* ------------------------------------------------------------------------
\* C17: over a call of analyze_data the raw frame, and over a call of
\* run_diagnostics or forecast_demand the cleaned frame, has the same rows,
\* columns and values after the call as before it, whether the call returns
\* or raises.
C17_ArgumentsUnchanged ==
    [][ /\ raw_df' = raw_df
        /\ (pc \in {"diagnose", "forecast"}) => analysis'.cleaned_df = analysis.cleaned_df ]_vars

\* A run in which the detector returned its frame with the flag column and
\* the forecaster its rows, while the cleaned frame has no flag column.
C17_Witness ==
    /\ pc = "recommend"
    /\ "is_anomaly" \in diagnostic.anomaly_df.columns
    /\ "is_anomaly" \notin analysis.cleaned_df.columns
    /\ NRows(forecast.forecast_df) > 0
    /\ raw_df.columns # analysis.cleaned_df.columns

\* ------------------------------------------------------------------------
\* C18: the lag features of the projection
\* ------------------------------------------------------------------------
\* The loop of forecast_demand after its k-th pass, k >= 1.
FcStepsDone == IF fc # None /\ fc.pc \in {"loop", "returned"} THEN Len(fc.future_rows) ELSE 0

\* The energy k hours before projection step `step`: observed, or the
\* clamped prediction of an earlier step.
EnergyBefore(step, k) ==
    LET n == NRows(fc.prepared.work_df)
    IN  IF step - k >= 1 THEN fc.future_rows[step - k].pred_kwh
        ELSE fc.prepared.work_df.rows[n + step - k]["kwh"]

\* C18: after pass k of the loop the features given to the model hold no
\* missing value, their lag-1 is the last observed energy for k = 1 and the
\* clamped prediction of pass k-1 otherwise, their lag-24 is the clamped
\* prediction of pass k-24 for k > 24 and the energy observed 24 rows back
\* otherwise; and the history holds the observed rows followed by one row
\* per pass whose energy is that pass's clamped prediction.
C18_LagsFromExtendedHistory ==
    FcStepsDone >= 1 =>
        LET k == FcStepsDone
            n == NRows(fc.prepared.work_df)
        IN  /\ \A f \in DOMAIN fc.features : fc.features[f] # NaN
            /\ fc.features["lag_1"] = EnergyBefore(k, 1)
            /\ fc.features["lag_24"] = EnergyBefore(k, 24)
            /\ NRows(fc.history) = n + k
            /\ \A j \in 1..k :
                  /\ fc.history.rows[n + j]["kwh"] = fc.future_rows[j].pred_kwh
                  /\ fc.future_rows[j].pred_kwh >= 0
            /\ \A i \in 1..n : fc.history.rows[i] = fc.prepared.work_df.rows[i]

\* A pass past the first day whose lag-24 is an earlier prediction, with
\* lags that differ and a prediction that was clamped among the earlier ones.
C18_Witness ==
    /\ FcStepsDone > 24
    /\ fc.features["lag_24"] = fc.future_rows[FcStepsDone - 24].pred_kwh
    /\ fc.features["lag_1"] = fc.future_rows[FcStepsDone - 1].pred_kwh
    /\ fc.features["lag_1"] # fc.features["lag_24"]

\* ------------------------------------------------------------------------
\* C19: the synthesized exogenous values
\* ------------------------------------------------------------------------
\* C19 as stated: in every row the loop appends, ambient_temp and
\* load_profile are the mean of the last 24 observed values of the column.
C19_HeldOverFromObserved ==
    FcStepsDone >= 1 =>
        LET n == NRows(fc.prepared.work_df)
        IN  \A j \in 1..FcStepsDone :
                \A c \in {"ambient_temp", "load_profile"} \cap fc.prepared.work_df.columns :
                    fc.history.rows[n + j][c] = TailMeanCell(Column(fc.prepared.work_df, c))

\* ------------------------------------------------------------------------
\* C20: the forecast timestamps
\* ------------------------------------------------------------------------
\* The sampling interval of the sorted input, in hours: the common
\* difference of its timestamps when they are distinct and equally spaced,
\* else none (0).
SamplingInterval(ts) ==
    IF \E d \in 1..(MaxBigRows + LongHorizon) : \A i \in 2..Len(ts) : ts[i] - ts[i - 1] = d
    THEN CHOOSE d \in 1..(MaxBigRows + LongHorizon) : \A i \in 2..Len(ts) : ts[i] - ts[i - 1] = d
    ELSE 0

\* C20: the timestamps of a returned forecast increase strictly, the first
\* lies after every timestamp of the input, and each lies one sampling
\* interval of the input after the one before it (after the input's last
\* one for the first), or one hour when the input has no such interval.
C20_TimestampsAdvance ==
    (fc # None /\ fc.pc = "returned") =>
        LET out == fc.result.value.forecast_df
            ts == Column(fc.df, "timestamp")
            last == MaxSeq(ts)
            interval == IF SamplingInterval(Column(fc.prepared.work_df, "timestamp")) = 0
                        THEN 1
                        ELSE SamplingInterval(Column(fc.prepared.work_df, "timestamp"))
        IN  \A j \in 1..NRows(out) :
                /\ out.rows[j]["timestamp"] > last
                /\ out.rows[j]["timestamp"]
                      = (IF j = 1 THEN last ELSE out.rows[j - 1]["timestamp"]) + interval
                /\ j > 1 => out.rows[j]["timestamp"] > out.rows[j - 1]["timestamp"]

\* A returned forecast of several rows at an interval of two hours.
C20_Witness ==
    /\ fc # None
    /\ fc.pc = "returned"
    /\ NRows(fc.result.value.forecast_df) >= 3
    /\ fc.result.value.forecast_df.rows[2]["timestamp"]
          = fc.result.value.forecast_df.rows[1]["timestamp"] + 2

\* A returned forecast of several rows for an input without a sampling
\* interval, stepping by the hour.
C20_WitnessFallback ==
    /\ fc # None
    /\ fc.pc = "returned"
    /\ NRows(fc.result.value.forecast_df) >= 3
    /\ SamplingInterval(Column(fc.prepared.work_df, "timestamp")) = 0

\* ------------------------------------------------------------------------
\* C21: the efficiency-degradation percentage
\* ------------------------------------------------------------------------
\* A returned call of run_diagnostics, and the percentage in its summary.
DiagReturned == diag # None /\ diag.pc = "returned"
DiagPct == diag.result.value.summary.efficiency_degradation_pct

\* The percentage is the number 0.0.
PctIsZero(pct) == pct.den > 0 /\ pct.num = 0

\* The frame is long enough and has the efficiency column.
DegradationApplies(df) == NRows(df) >= 10 /\ "ikw_tr" \in df.columns

\* The readings of the efficiency column among the first (the last) max(5,
\* n/5 rounded down) rows of the frame.
FirstWindow(df) ==
    LET w == IF NRows(df) \div 5 > 5 THEN NRows(df) \div 5 ELSE 5
    IN  Valid([i \in 1..w |-> df.rows[i]["ikw_tr"]])
LastWindow(df) ==
    LET w == IF NRows(df) \div 5 > 5 THEN NRows(df) \div 5 ELSE 5
    IN  Valid([i \in 1..w |-> df.rows[NRows(df) - w + i]["ikw_tr"]])

\* The mean of window a exceeds the mean of window b (both with readings).
MeanExceeds(a, b) == SumSeq(a) * Len(b) > SumSeq(b) * Len(a)

\* pct is (recent - baseline) / baseline * 100 for the means of the windows
\* recent and baseline, the baseline mean not 0.
IsDegradationOf(pct, recent, baseline) ==
    /\ pct.den > 0
    /\ pct.num * (SumSeq(baseline) * Len(recent))
          = (SumSeq(recent) * Len(baseline) - SumSeq(baseline) * Len(recent)) * 100 * pct.den

\* C21 as stated: the percentage is 0.0 for a frame of fewer than 10 rows or
\* without the efficiency column; for every other frame it is
\* (recent - baseline) / baseline * 100 over the two windows, and positive
\* exactly when the recent mean exceeds the baseline mean.
C21_DegradationFormula ==
    DiagReturned =>
        LET df == diag.df
        IN  /\ ~DegradationApplies(df) => PctIsZero(DiagPct)
            /\ DegradationApplies(df) =>
                  /\ (DiagPct.den > 0 /\ DiagPct.num > 0)
                        <=> (/\ FirstWindow(df) # <<>>
                             /\ LastWindow(df) # <<>>
                             /\ MeanExceeds(LastWindow(df), FirstWindow(df)))
                  /\ (FirstWindow(df) # <<>> /\ LastWindow(df) # <<>> /\ SumSeq(FirstWindow(df)) # 0)
                        => IsDegradationOf(DiagPct, LastWindow(df), FirstWindow(df))

\* C21, amended: the percentage is 0.0 for a frame of fewer than 10 rows or
\* without the efficiency column, and also when the baseline mean is not a
\* positive number (zero, negative, or undefined for want of readings).
\* With a positive baseline mean it is (recent - baseline) / baseline * 100
\* over the two windows, positive exactly when the recent mean exceeds the
\* baseline mean, and undefined when the recent window has no reading.
C21_DegradationGuarded ==
    DiagReturned =>
        LET df == diag.df
        IN  /\ ~DegradationApplies(df) => PctIsZero(DiagPct)
            /\ DegradationApplies(df) =>
                  LET baseline == FirstWindow(df)
                      recent == LastWindow(df)
                  IN  IF baseline = <<>> \/ SumSeq(baseline) <= 0
                      THEN PctIsZero(DiagPct)
                      ELSE IF recent = <<>> THEN DiagPct.den = 0
                      ELSE /\ IsDegradationOf(DiagPct, recent, baseline)
                           /\ (DiagPct.num > 0) <=> MeanExceeds(recent, baseline)
                           /\ (DiagPct.num < 0) <=> MeanExceeds(baseline, recent)

\* A returned call on 30 rows, windows of 6 rows, whose efficiency ratio
\* worsened: the percentage is positive.
C21_Witness ==
    /\ DiagReturned
    /\ NRows(diag.df) = 30
    /\ DegradationApplies(diag.df)
    /\ DiagPct.den > 0
    /\ DiagPct.num > 0

\* A returned call on a frame whose baseline mean is zero and whose recent
\* mean is not: the percentage is 0.0.
C21_WitnessZeroBaseline ==
    /\ DiagReturned
    /\ DegradationApplies(diag.df)
    /\ FirstWindow(diag.df) # <<>>
    /\ SumSeq(FirstWindow(diag.df)) = 0
    /\ SumSeq(LastWindow(diag.df)) > 0
    /\ PctIsZero(DiagPct)
====
